---------------------------- MODULE Spec2Model ----------------------------
(***************************************************************************)
(* Model of the RAG agent's persistence layer:                             *)
(*   components/conversation_manager.py  (ConversationManager, "chats")    *)
(*   components/vector_store.py          (VectorStoreManager, "documents") *)
(*   app.py                              (retrieval issued by the ask flow)*)
(*                                                                         *)
(* The Supabase store is an external collaborator.  It is modelled as the  *)
(* relational store the design assumes: a table is a sequence of rows in   *)
(* store order, filters (.eq / .contains / .like) select rows, update and  *)
(* delete act on every selected row, insert appends a row without any      *)
(* uniqueness check, and upsert is keyed on (username, chat_name).  Every  *)
(* .execute() may raise (store unreachable); that is an input of the       *)
(* handler that issues it.                                                 *)
(***************************************************************************)
EXTENDS Integers, Sequences, FiniteSets, TLC

(* ------------------------------ bounds --------------------------------- *)
Users == {"u1", "u2"}
Sessions == {"s1", "s2"}
ChatNames == {"X", "Y"}
Contents == {"c1", "c2"}
MaxClock == 3
MaxFailures == 1
\* file paths are sequences of characters
Filenames == {<<"a">>, <<"a", "b">>, <<"a", "_">>}

NULL == 0

VARIABLES
    chats,          \* the "chats" table: sequence of rows in store order
    hasUpdatedAt,   \* schema: does the chats table have an updated_at column
    clock,          \* wall clock read by datetime.datetime.now(); a call takes one tick
    failures,       \* store calls that have raised so far
    last,           \* the last handler call: its arguments and what it returned
    documents,      \* the "documents" table: sequence of chunk rows in store order
    creating,       \* per session: the create_new_chat call it is running
    ui,             \* the page session: st.session_state and what its last run did
    upload          \* the working directory of the server process, and per session
                    \* the process_uploaded_files call it is running

vars == <<chats, hasUpdatedAt, clock, failures, last, documents, creating, ui, upload>>

\* no temporary file on disk, no session inside process_uploaded_files
NoUpload ==
    [disk |-> {},
     run |-> [s \in Sessions |-> [pc |-> "idle", files |-> <<>>, i |-> 0, docs |-> <<>>]]]

(* --------------------------- messages ---------------------------------- *)
\* langchain message objects held in st.session_state.messages
MessageClasses == {"HumanMessage", "AIMessage"}
Messages == [cls : MessageClasses, content : Contents]

\* the histories handed to save_history: a conversation as it grows
Conversation == <<[cls |-> "HumanMessage", content |-> "c1"],
                  [cls |-> "AIMessage", content |-> "c2"]>>
Histories == {SubSeq(Conversation, 1, k) : k \in 0..Len(Conversation)}

\* mutant: the isinstance test never matches, every message is stored as 'ai'
ToJson_allai(msg) ==
    [type |-> "ai", content |-> msg.content]

\* save_history: message object -> JSON object
ToJson(msg) ==
    IF msg.cls = "HumanMessage"
    THEN [type |-> "human", content |-> msg.content]
    ELSE [type |-> "ai", content |-> msg.content]

\* load_history: JSON object -> message object
FromJson(j) ==
    IF j.type = "human"
    THEN [cls |-> "HumanMessage", content |-> j.content]
    ELSE [cls |-> "AIMessage", content |-> j.content]

HistoryToJson(history) == [i \in 1..Len(history) |-> ToJson(history[i])]
HistoryFromJson(data) == [i \in 1..Len(data) |-> FromJson(data[i])]

(* --------------------------- chats table ------------------------------- *)
ChatRow(u, n, msgs, ts) ==
    [username |-> u, chat_name |-> n, messages |-> msgs, updated_at |-> ts]

\* mutant: the username filter is left out
IsChat_nameonly(r, u, n) == r.chat_name = n

\* .eq("username", self.username).eq("chat_name", chat_name)
IsChat(r, u, n) == r.username = u /\ r.chat_name = n
SelectChat(tbl, u, n) == SelectSeq(tbl, LAMBDA r : IsChat(r, u, n))

\* .eq("username", self.username)
SelectUser(tbl, u) == SelectSeq(tbl, LAMBDA r : r.username = u)

\* mutant: the query lacks .eq("chat_name", chat_name)
load_history_anychat(tbl, u, n, fail) ==
    IF fail THEN [ret |-> <<>>, failed |-> TRUE, raised |-> 1]
    ELSE LET data == SelectUser(tbl, u)
         IN  IF data # <<>>
             THEN [ret |-> HistoryFromJson(data[1].messages), failed |-> FALSE, raised |-> 0]
             ELSE [ret |-> <<>>, failed |-> FALSE, raised |-> 0]

\* load_history(chat_name) for the manager of user u
load_history(tbl, u, n, fail) ==
    IF fail THEN [ret |-> <<>>, failed |-> TRUE, raised |-> 1]
    ELSE LET data == SelectChat(tbl, u, n)
         IN  IF data # <<>>
             THEN [ret |-> HistoryFromJson(data[1].messages), failed |-> FALSE, raised |-> 0]
             ELSE [ret |-> <<>>, failed |-> FALSE, raised |-> 0]

\* a write is first tried with the updated_at column and, on any exception, again
\* without it: the first try raises when the column is missing, or when the store
\* fails (f1); only the latter is a store failure
Transient(hasTs, f1) == IF hasTs /\ f1 THEN 1 ELSE 0

\* upsert keyed on (username, chat_name); withTs: the payload has updated_at
Upsert(tbl, u, n, msgs, withTs, now) ==
    IF SelectChat(tbl, u, n) # <<>>
    THEN [i \in 1..Len(tbl) |->
            IF IsChat(tbl[i], u, n)
            THEN ChatRow(u, n, msgs, IF withTs THEN now ELSE tbl[i].updated_at)
            ELSE tbl[i]]
    ELSE Append(tbl, ChatRow(u, n, msgs, IF withTs THEN now ELSE NULL))

\* save_history(chat_name, history); f1, f2: the two upserts' store failures
save_history(tbl, u, n, history, now, hasTs, f1, f2) ==
    LET history_json == HistoryToJson(history)
    IN  IF hasTs /\ ~f1
        THEN [tbl |-> Upsert(tbl, u, n, history_json, TRUE, now),
              ret |-> "None", failed |-> FALSE, raised |-> 0]
        ELSE IF ~f2
        THEN [tbl |-> Upsert(tbl, u, n, history_json, FALSE, now),
              ret |-> "None", failed |-> FALSE, raised |-> Transient(hasTs, f1)]
        ELSE [tbl |-> tbl, ret |-> "None", failed |-> TRUE,
              raised |-> Transient(hasTs, f1) + 1]

\* create_new_chat's existence query: existing_response.data is non-empty
chat_exists(tbl, u, n) == SelectChat(tbl, u, n) # <<>>

\* mutant: the table rejects a second row of the same (username, chat_name)
insert_chat_unique(tbl, u, n, ts) ==
    IF chat_exists(tbl, u, n) THEN tbl ELSE Append(tbl, ChatRow(u, n, <<>>, ts))

\* create_new_chat's insert of an empty chat
insert_chat(tbl, u, n, ts) == Append(tbl, ChatRow(u, n, <<>>, ts))

\* mutant: no existence check before the insert
create_new_chat_nocheck(tbl, u, n, now, hasTs, f0, f1, f2) ==
    IF f0 THEN [tbl |-> tbl, ret |-> FALSE, failed |-> TRUE, raised |-> 1]
    ELSE IF hasTs /\ ~f1
    THEN [tbl |-> Append(tbl, ChatRow(u, n, <<>>, now)), ret |-> TRUE, failed |-> FALSE,
          raised |-> 0]
    ELSE IF ~f2
    THEN [tbl |-> Append(tbl, ChatRow(u, n, <<>>, NULL)), ret |-> TRUE, failed |-> FALSE,
          raised |-> Transient(hasTs, f1)]
    ELSE [tbl |-> tbl, ret |-> FALSE, failed |-> TRUE,
          raised |-> Transient(hasTs, f1) + 1]

\* mutant: an existing chat is reported as created
create_new_chat_wrongret(tbl, u, n, now, hasTs, f0, f1, f2) ==
    IF f0 THEN [tbl |-> tbl, ret |-> FALSE, failed |-> TRUE, raised |-> 1]
    ELSE IF SelectChat(tbl, u, n) # <<>>
    THEN [tbl |-> tbl, ret |-> TRUE, failed |-> FALSE, raised |-> 0]
    ELSE IF hasTs /\ ~f1
    THEN [tbl |-> Append(tbl, ChatRow(u, n, <<>>, now)), ret |-> TRUE, failed |-> FALSE,
          raised |-> 0]
    ELSE IF ~f2
    THEN [tbl |-> Append(tbl, ChatRow(u, n, <<>>, NULL)), ret |-> TRUE, failed |-> FALSE,
          raised |-> Transient(hasTs, f1)]
    ELSE [tbl |-> tbl, ret |-> FALSE, failed |-> TRUE,
          raised |-> Transient(hasTs, f1) + 1]

\* create_new_chat(chat_name); f0: existence query, f1, f2: the two inserts
create_new_chat(tbl, u, n, now, hasTs, f0, f1, f2) ==
    IF f0 THEN [tbl |-> tbl, ret |-> FALSE, failed |-> TRUE, raised |-> 1]
    ELSE IF chat_exists(tbl, u, n)
    THEN [tbl |-> tbl, ret |-> FALSE, failed |-> FALSE, raised |-> 0]
    ELSE IF hasTs /\ ~f1
    THEN [tbl |-> insert_chat(tbl, u, n, now), ret |-> TRUE, failed |-> FALSE,
          raised |-> 0]
    ELSE IF ~f2
    THEN [tbl |-> insert_chat(tbl, u, n, NULL), ret |-> TRUE, failed |-> FALSE,
          raised |-> Transient(hasTs, f1)]
    ELSE [tbl |-> tbl, ret |-> FALSE, failed |-> TRUE,
          raised |-> Transient(hasTs, f1) + 1]

\* mutant: the update payload also resets the messages
UpdateName_clear(tbl, u, old, new, withTs, now) ==
    [i \in 1..Len(tbl) |->
        IF IsChat(tbl[i], u, old)
        THEN ChatRow(u, new, <<>>, IF withTs THEN now ELSE tbl[i].updated_at)
        ELSE tbl[i]]

\* .update({...}).eq("username", ...).eq("chat_name", old_name)
UpdateName(tbl, u, old, new, withTs, now) ==
    [i \in 1..Len(tbl) |->
        IF IsChat(tbl[i], u, old)
        THEN ChatRow(u, new, tbl[i].messages, IF withTs THEN now ELSE tbl[i].updated_at)
        ELSE tbl[i]]

\* mutant: no check that the new name is free
rename_chat_nocheck(tbl, u, old, new, now, hasTs, f0, f1, f2) ==
    IF new = "" \/ new = old
    THEN [tbl |-> tbl, ret |-> FALSE, failed |-> FALSE, raised |-> 0]
    ELSE IF f0 THEN [tbl |-> tbl, ret |-> FALSE, failed |-> TRUE, raised |-> 1]
    ELSE IF hasTs /\ ~f1
    THEN [tbl |-> UpdateName(tbl, u, old, new, TRUE, now), ret |-> TRUE, failed |-> FALSE,
          raised |-> 0]
    ELSE IF ~f2
    THEN [tbl |-> UpdateName(tbl, u, old, new, FALSE, now), ret |-> TRUE, failed |-> FALSE,
          raised |-> Transient(hasTs, f1)]
    ELSE [tbl |-> tbl, ret |-> FALSE, failed |-> TRUE,
          raised |-> Transient(hasTs, f1) + 1]

\* rename_chat(old_name, new_name); f0: existence query, f1, f2: the two updates
rename_chat(tbl, u, old, new, now, hasTs, f0, f1, f2) ==
    IF new = "" \/ new = old
    THEN [tbl |-> tbl, ret |-> FALSE, failed |-> FALSE, raised |-> 0]
    ELSE IF f0 THEN [tbl |-> tbl, ret |-> FALSE, failed |-> TRUE, raised |-> 1]
    ELSE IF SelectChat(tbl, u, new) # <<>>
    THEN [tbl |-> tbl, ret |-> FALSE, failed |-> FALSE, raised |-> 0]
    ELSE IF hasTs /\ ~f1
    THEN [tbl |-> UpdateName(tbl, u, old, new, TRUE, now), ret |-> TRUE, failed |-> FALSE,
          raised |-> 0]
    ELSE IF ~f2
    THEN [tbl |-> UpdateName(tbl, u, old, new, FALSE, now), ret |-> TRUE, failed |-> FALSE,
          raised |-> Transient(hasTs, f1)]
    ELSE [tbl |-> tbl, ret |-> FALSE, failed |-> TRUE,
          raised |-> Transient(hasTs, f1) + 1]

\* mutant: the delete query is built but never executed
delete_chat_noexec(tbl, u, n, fail) ==
    [tbl |-> tbl, ret |-> "None", failed |-> fail, raised |-> IF fail THEN 1 ELSE 0]

\* delete_chat(chat_name)
delete_chat(tbl, u, n, fail) ==
    IF fail THEN [tbl |-> tbl, ret |-> "None", failed |-> TRUE, raised |-> 1]
    ELSE [tbl |-> SelectSeq(tbl, LAMBDA r : ~IsChat(r, u, n)),
          ret |-> "None", failed |-> FALSE, raised |-> 0]

\* mutant: ascending order
Newer_asc(a, b) ==
    \/ a.updated_at = NULL /\ b.updated_at # NULL
    \/ a.updated_at # NULL /\ b.updated_at # NULL /\ a.updated_at < b.updated_at

\* .order("updated_at", desc=True): NULL sorts as the largest value
Newer(a, b) ==
    \/ a.updated_at = NULL /\ b.updated_at # NULL
    \/ a.updated_at # NULL /\ b.updated_at # NULL /\ a.updated_at > b.updated_at

RECURSIVE InsertByUpdatedAt(_, _)
InsertByUpdatedAt(sorted, r) ==
    IF sorted = <<>> THEN <<r>>
    ELSE IF Newer(r, Head(sorted)) THEN <<r>> \o sorted
    ELSE <<Head(sorted)>> \o InsertByUpdatedAt(Tail(sorted), r)

RECURSIVE OrderByUpdatedAtDesc(_)
OrderByUpdatedAtDesc(rows) ==
    IF rows = <<>> THEN <<>>
    ELSE InsertByUpdatedAt(OrderByUpdatedAtDesc(Tail(rows)), Head(rows))

\* get_available_chats(); f1: ordered query, f2: fallback query
get_available_chats(tbl, u, hasTs, f1, f2) ==
    LET names(rows) == [i \in 1..Len(rows) |-> rows[i].chat_name]
    IN  IF hasTs /\ ~f1
        THEN [ret |-> names(OrderByUpdatedAtDesc(SelectUser(tbl, u))), failed |-> FALSE,
              raised |-> 0]
        ELSE IF ~f2
        THEN [ret |-> names(SelectUser(tbl, u)), failed |-> FALSE,
              raised |-> Transient(hasTs, f1)]
        ELSE [ret |-> <<>>, failed |-> TRUE, raised |-> Transient(hasTs, f1) + 1]

(* ------------------------- documents table ----------------------------- *)
\* a loaded document: metadata (source, possibly a username) and the number of
\* chunks the text splitter cuts its text into
NoSource == <<>>
NoUsername == ""
Doc(src, u, n) == [source |-> src, username |-> u, size |-> n]

\* the lists of documents handed to add_documents
Batches == {<<>>,
            <<Doc(<<"a">>, NoUsername, 1)>>,
            <<Doc(<<"d", "/", "a">>, NoUsername, 2)>>,
            <<Doc(<<"a", "b">>, "u2", 1)>>,
            <<Doc(NoSource, NoUsername, 1)>>,
            <<Doc(<<"a">>, "u1", 1), Doc(<<"a", "b">>, NoUsername, 1)>>}

ChunkRow(u, src, d, k) == [username |-> u, source |-> src, doc |-> d, chunk |-> k]

\* text_splitter.split_documents(docs): the chunks of every document, in order,
\* each with the metadata of its document
RECURSIVE split_documents(_, _)
split_documents(docs, d) ==
    IF d > Len(docs) THEN <<>>
    ELSE [k \in 1..docs[d].size |->
            ChunkRow(docs[d].username, docs[d].source, d, k)]
         \o split_documents(docs, d + 1)

\* mutant: the username is set only where the metadata has none
tag_username_keep(splits, u) ==
    [i \in 1..Len(splits) |->
        IF splits[i].username = NoUsername THEN [splits[i] EXCEPT !.username = u]
        ELSE splits[i]]

\* for split in splits: split.metadata['username'] = self.username
tag_username(splits, u) ==
    [i \in 1..Len(splits) |-> [splits[i] EXCEPT !.username = u]]

\* add_documents(docs) of the manager of user u; fail: embedding or insert raises
add_documents(tbl, u, docs, fail) ==
    IF docs = <<>> THEN [tbl |-> tbl, ret |-> "None", failed |-> FALSE, raised |-> 0]
    ELSE LET splits == tag_username(split_documents(docs, 1), u)
         IN  IF fail THEN [tbl |-> tbl, ret |-> "raised", failed |-> TRUE, raised |-> 1]
             ELSE [tbl |-> tbl \o splits, ret |-> "None", failed |-> FALSE, raised |-> 0]

\* .contains("metadata", {"username": self.username}), and the retriever's
\* 'filter': {'username': ...}
ContainsUsername(r, u) == r.username = u

\* mutant: the source path is listed as it is stored
basename_identity(path) == path

\* os.path.basename(source): what follows the last "/"
RECURSIVE basename(_)
basename(path) ==
    IF \E i \in 1..Len(path) : path[i] = "/"
    THEN basename(Tail(path))
    ELSE path

\* get_document_sources(): the sorted list of distinct names, as their set
get_document_sources(tbl, u, fail) ==
    IF fail THEN [ret |-> {}, failed |-> TRUE, raised |-> 1]
    ELSE LET data == SelectSeq(tbl, LAMBDA r : ContainsUsername(r, u))
         IN  [ret |-> {basename(data[i].source) :
                        i \in {j \in 1..Len(data) :
                                data[j].username = u /\ data[j].source # NoSource}},
              failed |-> FALSE, raised |-> 0]

\* .like("metadata->source", f"%{source_filename}%"): the source holds, at some
\* position, the characters of the pattern, where "_" in the pattern stands for
\* any one character
Like(src, f) ==
    /\ src # NoSource
    /\ \E i \in 1..(Len(src) - Len(f) + 1) :
        \A k \in 1..Len(f) : f[k] = "_" \/ src[i + k - 1] = f[k]

\* delete_document(source_filename)
delete_document(tbl, u, f, fail) ==
    IF fail THEN [tbl |-> tbl, ret |-> FALSE, failed |-> TRUE, raised |-> 1]
    ELSE [tbl |-> SelectSeq(tbl, LAMBDA r : ~(ContainsUsername(r, u) /\ Like(r.source, f))),
          ret |-> TRUE, failed |-> FALSE, raised |-> 0]

K == 5

\* mutant: the retriever is built without search_kwargs
retrieve_nofilter(tbl, u) ==
    {S \in SUBSET (1..Len(tbl)) : Cardinality(S) = IF Len(tbl) < K THEN Len(tbl) ELSE K}

\* vector_store.as_retriever(search_kwargs={'filter': {'username': ...}, 'k': 5}):
\* the sets of rows a similarity search may return, the K most similar of the rows
\* that pass the filter (similarity itself is left open)
retrieve(tbl, u) ==
    LET match == {i \in 1..Len(tbl) : ContainsUsername(tbl[i], u)}
        n == IF Cardinality(match) < K THEN Cardinality(match) ELSE K
    IN  {S \in SUBSET match : Cardinality(S) = n}

(* ----------------------- the page's session state ---------------------- *)
DEFAULT_CHAT_NAME == "New Chat"

\* st.session_state[f"chat_selector_{len(available_chats)}"]: the state of the
\* chat selector widget, the options it was last shown with (their number is its
\* key) and the value it returned
WidgetState(options, value) == [options |-> options, value |-> value]
NoWidget == WidgetState(<<>>, "")

\* _initialize_session_state: the defaults of st.session_state (no widget has
\* been shown yet)
SessionDefaults ==
    [logged_in |-> FALSE, username |-> "", current_chat |-> DEFAULT_CHAT_NAME,
     messages |-> <<>>, prev_chat |-> "", chat_selector |-> NoWidget]

\* the widget event that triggers a run of the page script
Event(type, arg) == [type |-> type, arg |-> arg]
NoEvent == Event("none", "")

(* ------------------- handler calls, one at a time ---------------------- *)
\* Outcomes of the store calls a handler may issue, in order (TRUE: the store fails
\* on that call).  A handler that issues a query and then a write with a fallback
\* makes at most three calls.
OneCall == [1..1 -> BOOLEAN]
TwoCalls == [1..2 -> BOOLEAN]
ThreeCalls == [1..3 -> BOOLEAN]

\* the failures f announces are exactly those the handler ran into (a call that
\* is not issued cannot fail), and the store fails at most MaxFailures times
Raised(f) == Cardinality({i \in 1..Len(f) : f[i]})
Budget(f) == failures + Raised(f) <= MaxFailures
Affordable(f, r) == Raised(f) = r.raised /\ Budget(f)

\* what is remembered of a call: its arguments, what it returned (or "raised"),
\* whether a store call of it raised without a fallback succeeding, and whether it
\* changed the table
Call(op, u, n, arg, r, changed) ==
    [op |-> op, user |-> u, name |-> n, arg |-> arg, ret |-> r.ret, failed |-> r.failed,
     changed |-> changed]

Init ==
    /\ chats = <<>>
    /\ hasUpdatedAt \in BOOLEAN
    /\ clock = 0
    /\ failures = 0
    /\ last = [op |-> "init", user |-> "", name |-> "", arg |-> "", ret |-> "None",
               failed |-> FALSE, changed |-> FALSE]
    /\ documents = <<>>
    /\ creating = [s \in Sessions |->
                    [pc |-> "idle", user |-> "", name |-> "", ret |-> FALSE,
                     free |-> FALSE, failed |-> FALSE]]
    /\ ui = [ss |-> SessionDefaults, rerun |-> FALSE, event |-> NoEvent, fail |-> "none",
             saves |-> <<>>, crashed |-> FALSE]
    /\ upload = NoUpload

LoadHistory ==
    \E u \in Users, n \in ChatNames, f \in OneCall :
        /\ clock < MaxClock
        /\ clock' = clock + 1
        /\ LET r == load_history(chats, u, n, f[1])
           IN  /\ Affordable(f, r)
               /\ failures' = failures + r.raised
               /\ last' = Call("load", u, n, "", r, FALSE)
        /\ UNCHANGED <<chats, hasUpdatedAt, documents, creating, ui, upload>>

SaveHistory ==
    \E u \in Users, n \in ChatNames, history \in Histories, f \in TwoCalls :
        /\ clock < MaxClock
        /\ clock' = clock + 1
        /\ LET r == save_history(chats, u, n, history, clock', hasUpdatedAt, f[1], f[2])
           IN  /\ Affordable(f, r)
               /\ failures' = failures + r.raised
               /\ chats' = r.tbl
               /\ last' = Call("save", u, n, history, r, r.tbl # chats)
        /\ UNCHANGED <<hasUpdatedAt, documents, creating, ui, upload>>

CreateNewChat ==
    \E u \in Users, n \in ChatNames, f \in ThreeCalls :
        /\ clock < MaxClock
        /\ clock' = clock + 1
        /\ LET r == create_new_chat(chats, u, n, clock', hasUpdatedAt, f[1], f[2], f[3])
           IN  /\ Affordable(f, r)
               /\ failures' = failures + r.raised
               /\ chats' = r.tbl
               /\ last' = Call("create", u, n, "", r, r.tbl # chats)
        /\ UNCHANGED <<hasUpdatedAt, documents, creating, ui, upload>>

RenameChat ==
    \E u \in Users, old \in ChatNames, new \in ChatNames \cup {""}, f \in ThreeCalls :
        /\ clock < MaxClock
        /\ clock' = clock + 1
        /\ LET r == rename_chat(chats, u, old, new, clock', hasUpdatedAt, f[1], f[2], f[3])
           IN  /\ Affordable(f, r)
               /\ failures' = failures + r.raised
               /\ chats' = r.tbl
               /\ last' = Call("rename", u, old, new, r, r.tbl # chats)
        /\ UNCHANGED <<hasUpdatedAt, documents, creating, ui, upload>>

DeleteChat ==
    \E u \in Users, n \in ChatNames, f \in OneCall :
        /\ clock < MaxClock
        /\ clock' = clock + 1
        /\ LET r == delete_chat(chats, u, n, f[1])
           IN  /\ Affordable(f, r)
               /\ failures' = failures + r.raised
               /\ chats' = r.tbl
               /\ last' = Call("delete", u, n, "", r, r.tbl # chats)
        /\ UNCHANGED <<hasUpdatedAt, documents, creating, ui, upload>>

GetAvailableChats ==
    \E u \in Users, f \in TwoCalls :
        /\ clock < MaxClock
        /\ clock' = clock + 1
        /\ LET r == get_available_chats(chats, u, hasUpdatedAt, f[1], f[2])
           IN  /\ Affordable(f, r)
               /\ failures' = failures + r.raised
               /\ last' = Call("list", u, "", "", r, FALSE)
        /\ UNCHANGED <<chats, hasUpdatedAt, documents, creating, ui, upload>>

Next ==
    \/ LoadHistory
    \/ SaveHistory
    \/ CreateNewChat
    \/ RenameChat
    \/ DeleteChat
    \/ GetAvailableChats

Spec == Init /\ [][Next]_vars

(* ---------------- knowledge base calls, one at a time ------------------ *)
InitKB ==
    /\ Init
    /\ hasUpdatedAt

AddDocuments ==
    \E u \in Users, docs \in Batches, f \in OneCall :
        /\ clock < MaxClock
        /\ clock' = clock + 1
        /\ LET r == add_documents(documents, u, docs, f[1])
           IN  /\ Affordable(f, r)
               /\ failures' = failures + r.raised
               /\ documents' = r.tbl
               /\ last' = Call("add", u, "", docs, r, r.tbl # documents)
        /\ UNCHANGED <<chats, hasUpdatedAt, creating, ui, upload>>

GetDocumentSources ==
    \E u \in Users, f \in OneCall :
        /\ clock < MaxClock
        /\ clock' = clock + 1
        /\ LET r == get_document_sources(documents, u, f[1])
           IN  /\ Affordable(f, r)
               /\ failures' = failures + r.raised
               /\ last' = Call("sources", u, "", "", r, FALSE)
        /\ UNCHANGED <<chats, hasUpdatedAt, documents, creating, ui, upload>>

DeleteDocument ==
    \E u \in Users, name \in Filenames, f \in OneCall :
        /\ clock < MaxClock
        /\ clock' = clock + 1
        /\ LET r == delete_document(documents, u, name, f[1])
           IN  /\ Affordable(f, r)
               /\ failures' = failures + r.raised
               /\ documents' = r.tbl
               /\ last' = Call("delete_document", u, name, "", r, r.tbl # documents)
        /\ UNCHANGED <<chats, hasUpdatedAt, creating, ui, upload>>

\* the retrieval of the ask flow of a session logged in as u
Retrieve ==
    \E u \in Users :
        /\ clock < MaxClock
        /\ clock' = clock + 1
        /\ \E S \in retrieve(documents, u) :
            last' = Call("retrieve", u, "", "",
                         [ret |-> {documents[i] : i \in S}, failed |-> FALSE], FALSE)
        /\ UNCHANGED <<chats, hasUpdatedAt, failures, documents, creating, ui, upload>>

NextKB ==
    \/ AddDocuments
    \/ GetDocumentSources
    \/ DeleteDocument
    \/ Retrieve

SpecKB == InitKB /\ [][NextKB]_vars

(* ------- create_new_chat of concurrent sessions, one store call a step ------ *)
\* Each session runs create_new_chat once; its store calls (the existence query,
\* the insert with timestamps, the basic insert) interleave with the other
\* session's.
Finish(s, ret, failed) ==
    creating' = [creating EXCEPT ![s].pc = "done", ![s].ret = ret, ![s].failed = failed]

\* existing_response = ...select("chat_name")...execute(); if existing_response.data
CreateCheck(s) ==
    \E u \in Users, n \in ChatNames, f \in OneCall :
        /\ creating[s].pc = "idle"
        /\ Budget(f)
        /\ failures' = failures + Raised(f)
        /\ clock' = clock + 1
        /\ IF f[1]
           THEN creating' = [creating EXCEPT ![s] =
                    [pc |-> "done", user |-> u, name |-> n, ret |-> FALSE,
                     free |-> FALSE, failed |-> TRUE]]
           ELSE IF chat_exists(chats, u, n)
           THEN creating' = [creating EXCEPT ![s] =
                    [pc |-> "done", user |-> u, name |-> n, ret |-> FALSE,
                     free |-> FALSE, failed |-> FALSE]]
           ELSE creating' = [creating EXCEPT ![s] =
                    [pc |-> "insert", user |-> u, name |-> n, ret |-> FALSE,
                     free |-> TRUE, failed |-> FALSE]]
        /\ UNCHANGED <<chats, hasUpdatedAt, last, documents, ui, upload>>

\* insert with created_at / updated_at; on an exception fall through to the basic insert
CreateInsert(s) ==
    \E f \in OneCall :
        /\ creating[s].pc = "insert"
        /\ f[1] => hasUpdatedAt
        /\ Budget(f)
        /\ failures' = failures + Raised(f)
        /\ clock' = clock + 1
        /\ IF hasUpdatedAt /\ ~f[1]
           THEN /\ chats' = insert_chat(chats, creating[s].user, creating[s].name, clock')
                /\ Finish(s, TRUE, FALSE)
           ELSE /\ chats' = chats
                /\ creating' = [creating EXCEPT ![s].pc = "fallback"]
        /\ UNCHANGED <<hasUpdatedAt, last, documents, ui, upload>>

\* basic insert without timestamp columns; an exception here ends the call with False
CreateFallback(s) ==
    \E f \in OneCall :
        /\ creating[s].pc = "fallback"
        /\ Budget(f)
        /\ failures' = failures + Raised(f)
        /\ clock' = clock + 1
        /\ IF ~f[1]
           THEN /\ chats' = insert_chat(chats, creating[s].user, creating[s].name, NULL)
                /\ Finish(s, TRUE, FALSE)
           ELSE /\ chats' = chats
                /\ Finish(s, FALSE, TRUE)
        /\ UNCHANGED <<hasUpdatedAt, last, documents, ui, upload>>

NextRace ==
    \E s \in Sessions :
        \/ CreateCheck(s)
        \/ CreateInsert(s)
        \/ CreateFallback(s)

SpecRace == Init /\ [][NextRace]_vars

(* ======================= claims: conversation store ===================== *)
OtherUsers(u) == Users \ {u}
NumChats(tbl, u) == Len(SelectUser(tbl, u))
Loaded(tbl, u, n) == load_history(tbl, u, n, FALSE).ret

\* C2: in every state reached by create_new_chat, save_history, rename_chat and
\* delete_chat calls executed one at a time by any users, the chats table holds at
\* most one row for each (username, chat_name) pair.
C2_UniqueChatNames ==
    \A i, j \in 1..Len(chats) :
        IsChat(chats[i], chats[j].username, chats[j].chat_name) => i = j

\* a create of a name the user already has was turned down while another chat of
\* the same user is stored
C2_Witness ==
    /\ last.op = "create" /\ ~last.failed /\ last.ret = FALSE
    /\ NumChats(chats, last.user) = 2

\* C3 as stated: for ANY user U and name X, create_new_chat(U, X) followed by
\* create_new_chat(U, X) returns false the second time and the number of chats of
\* U grows by exactly 1 over the two calls (no store call raising).
C3_Original ==
    [][(last'.op = "create" /\ ~last'.failed) =>
        LET u == last'.user
            second == create_new_chat(chats', u, last'.name, clock' + 1, hasUpdatedAt,
                                      FALSE, FALSE, FALSE)
        IN  /\ second.ret = FALSE
            /\ NumChats(second.tbl, u) = NumChats(chats, u) + 1]_vars

\* C3 amended: when U has no chat named X and no store call raises,
\* create_new_chat(U, X) returns true and appends one row (U, X) with empty
\* messages, and a second create_new_chat(U, X) returns false and leaves the store
\* unchanged, so the number of chats of U grows by exactly 1 over the two calls.
\* When U already has a chat X the first call too returns false and changes nothing.
C3_CreateTwice ==
    [][(last'.op = "create" /\ ~last'.failed) =>
        LET u == last'.user
            n == last'.name
            second == create_new_chat(chats', u, n, clock' + 1, hasUpdatedAt,
                                      FALSE, FALSE, FALSE)
        IN  /\ second.ret = FALSE
            /\ second.tbl = chats'
            /\ IF SelectChat(chats, u, n) = <<>>
               THEN /\ last'.ret = TRUE
                    /\ Len(chats') = Len(chats) + 1
                    /\ SubSeq(chats', 1, Len(chats)) = chats
                    /\ IsChat(chats'[Len(chats')], u, n)
                    /\ chats'[Len(chats')].messages = <<>>
                    /\ NumChats(second.tbl, u) = NumChats(chats, u) + 1
               ELSE /\ last'.ret = FALSE
                    /\ chats' = chats]_vars

\* the same create was issued twice in a row: the first inserted, the second was
\* turned down
C3_Witness ==
    /\ last.op = "create" /\ ~last.failed /\ last.ret = FALSE /\ ~last.changed
    /\ Len(SelectChat(chats, last.user, last.name)) = 1
    /\ SelectChat(chats, last.user, last.name)[1].messages = <<>>

\* C4: save_history(U, X, msgs) followed by load_history(U, X) returns msgs
\* exactly (length, order, role and content of each message), whether or not chat
\* X existed before the save; no store call raising.
C4_SaveLoadRoundTrip ==
    [][/\ (last'.op = "save" /\ ~last'.failed) =>
            /\ Loaded(chats', last'.user, last'.name) = last'.arg
            /\ Len(SelectChat(chats', last'.user, last'.name)) = 1
            /\ SelectChat(chats', last'.user, last'.name)[1].messages
                    = HistoryToJson(last'.arg)
       /\ (/\ last.op = "save" /\ ~last.failed
           /\ last'.op = "load" /\ ~last'.failed
           /\ last'.user = last.user /\ last'.name = last.name) =>
            last'.ret = last.arg]_vars

\* a load returned a two-message history with both roles
C4_Witness ==
    /\ last.op = "load" /\ ~last.failed
    /\ last.ret = Conversation

\* C5: when chat X exists for U, Y is non-empty, Y # X and U has no chat Y,
\* rename_chat(U, X, Y) returns true, after which load_history(U, Y) returns the
\* messages previously stored under X and load_history(U, X) returns the empty
\* sequence; no store call raising.
C5_RenameMovesHistory ==
    [][/\ (/\ last'.op = "rename" /\ ~last'.failed
           /\ SelectChat(chats, last'.user, last'.name) # <<>>
           /\ last'.arg # "" /\ last'.arg # last'.name
           /\ SelectChat(chats, last'.user, last'.arg) = <<>>) =>
            /\ last'.ret = TRUE
            /\ Loaded(chats', last'.user, last'.arg) = Loaded(chats, last'.user, last'.name)
            /\ Loaded(chats', last'.user, last'.name) = <<>>
       /\ (/\ last.op = "rename" /\ last.ret = TRUE
           /\ last'.op = "load" /\ ~last'.failed /\ last'.user = last.user) =>
            (last'.name = last.name => last'.ret = <<>>)]_vars

\* a chat with a non-empty history was renamed
C5_Witness ==
    /\ last.op = "rename" /\ last.ret = TRUE /\ last.changed
    /\ Loaded(chats, last.user, last.arg) # <<>>

RenameRejected(tbl, u, old, new) ==
    new = "" \/ new = old \/ SelectChat(tbl, u, new) # <<>>

\* C6 as stated: rename_chat returns false and leaves every row unchanged when new
\* is empty, equals old or is taken; in all other cases it updates ONLY the name
\* field of the (U, old) row.
C6_Original ==
    [][(last'.op = "rename" /\ ~last'.failed) =>
        IF RenameRejected(chats, last'.user, last'.name, last'.arg)
        THEN last'.ret = FALSE /\ chats' = chats
        ELSE /\ Len(chats') = Len(chats)
             /\ \A i \in 1..Len(chats) :
                    IF IsChat(chats[i], last'.user, last'.name)
                    THEN chats'[i] = [chats[i] EXCEPT !.chat_name = last'.arg]
                    ELSE chats'[i] = chats[i]]_vars

\* C6 amended: rename_chat returns false and leaves every row unchanged when new is
\* empty, equals old or is taken; in all other cases (no store call raising
\* unrecovered) it returns true and rewrites the name of the (U, old) row and,
\* when the stamped update went through, its updated_at to the time of the call;
\* the row's messages and every other row are unchanged.
C6_RenameEffect ==
    [][(last'.op = "rename" /\ ~last'.failed) =>
        IF RenameRejected(chats, last'.user, last'.name, last'.arg)
        THEN last'.ret = FALSE /\ chats' = chats
        ELSE /\ last'.ret = TRUE
             /\ Len(chats') = Len(chats)
             /\ \A i \in 1..Len(chats) :
                    IF IsChat(chats[i], last'.user, last'.name)
                    THEN \E ts \in {chats[i].updated_at, clock'} :
                            chats'[i] = [chats[i] EXCEPT !.chat_name = last'.arg,
                                                         !.updated_at = ts]
                    ELSE chats'[i] = chats[i]]_vars

\* a rename onto a name the user already has was turned down
C6_Witness ==
    /\ last.op = "rename" /\ ~last.failed /\ last.ret = FALSE
    /\ last.arg # "" /\ last.arg # last.name
    /\ SelectChat(chats, last.user, last.name) # <<>>
    /\ SelectChat(chats, last.user, last.arg) # <<>>

\* C7: delete_chat(U, X) followed by load_history(U, X) returns the empty sequence
\* without error, and delete_chat is idempotent: on a chat that does not exist, or
\* a second time, it returns normally and leaves the store unchanged; no store
\* call raising.
C7_DeleteThenLoad ==
    [][/\ (last'.op = "delete" /\ ~last'.failed) =>
            /\ last'.ret = "None"
            /\ SelectChat(chats', last'.user, last'.name) = <<>>
            /\ Loaded(chats', last'.user, last'.name) = <<>>
            /\ delete_chat(chats', last'.user, last'.name, FALSE).tbl = chats'
            /\ SelectChat(chats, last'.user, last'.name) = <<>> => chats' = chats
       /\ (/\ last.op = "delete" /\ ~last.failed /\ ~last'.failed
           /\ last'.user = last.user /\ last'.name = last.name) =>
            /\ last'.op = "load" => last'.ret = <<>>
            /\ last'.op = "delete" => chats' = chats /\ last'.ret = "None"]_vars

\* a stored chat was deleted and is gone from the table
C7_Witness ==
    /\ last.op = "delete" /\ ~last.failed /\ last.changed
    /\ SelectChat(chats, last.user, last.name) = <<>>

\* C8: a create, save, rename or delete for user U1 leaves the rows of every other
\* user unchanged, and load_history / get_available_chats for U1 return data of
\* U1's rows only, also when another user has a chat of the same name.
C8_UserIsolation ==
    [][/\ \A u2 \in OtherUsers(last'.user) : SelectUser(chats', u2) = SelectUser(chats, u2)
       /\ (last'.op = "load" /\ last'.ret # <<>>) =>
            \E i \in 1..Len(chats) :
                /\ chats[i].username = last'.user
                /\ chats[i].chat_name = last'.name
                /\ last'.ret = HistoryFromJson(chats[i].messages)
       /\ last'.op = "list" =>
            /\ Len(last'.ret) <= NumChats(chats, last'.user)
            /\ \A k \in 1..Len(last'.ret) :
                \E i \in 1..Len(chats) :
                    chats[i].username = last'.user /\ chats[i].chat_name = last'.ret[k]]_vars

\* a user loaded a chat while another user holds a chat of the same name with
\* other messages
C8_Witness ==
    /\ last.op = "load" /\ last.ret # <<>>
    /\ \E i, j \in 1..Len(chats) :
        /\ chats[i].username = last.user /\ chats[i].chat_name = last.name
        /\ chats[j].username # last.user /\ chats[j].chat_name = last.name
        /\ chats[j].messages # chats[i].messages

(* ========================= claims: knowledge base ======================= *)
\* C1: after any sequence of add_documents / delete_document calls by both users
\* (also both adding chunks of a file of the same name), get_document_sources for
\* U1 returns only names that are the basename of the source of a stored chunk
\* whose metadata username is U1, and the retrieval of U1's ask flow returns only
\* stored chunks whose metadata username is U1.
C1_KnowledgeBaseIsolation ==
    [][/\ last'.op = "sources" =>
            \A name \in last'.ret :
                \E i \in 1..Len(documents) :
                    /\ documents[i].username = last'.user
                    /\ documents[i].source # NoSource
                    /\ basename(documents[i].source) = name
       /\ last'.op = "retrieve" =>
            \A r \in last'.ret :
                /\ r.username = last'.user
                /\ \E i \in 1..Len(documents) : documents[i] = r]_vars

\* a user's sources were listed, or chunks retrieved, while another user holds
\* chunks of other files and of a file of the same name
C1_Witness ==
    /\ last.op \in {"sources", "retrieve"} /\ last.ret # {}
    /\ \E i, j, k \in 1..Len(documents) :
        /\ documents[i].username = last.user
        /\ documents[j].username # last.user
        /\ documents[j].source = documents[i].source
        /\ documents[k].username # last.user
        /\ \A m \in 1..Len(documents) :
            documents[m].username = last.user => documents[m].source # documents[k].source

(* ====================== claims: concurrent sessions ===================== *)
Done(s) == creating[s].pc = "done"
Created(u, n) ==
    {s \in Sessions : Done(s) /\ creating[s].ret /\ creating[s].user = u /\ creating[s].name = n}

\* C9: when two sessions of one user run create_new_chat(U, X) concurrently, the
\* existence check and the insert being separate store calls, both calls return
\* true in the interleavings where both checks run before either insert: a call
\* whose check found the name free returns true whatever the other session did in
\* between (no store call raising unrecovered), and every such call adds its own
\* row, so the table then holds two rows (U, X).
C9_ConcurrentCreatesBothSucceed ==
    /\ \A s \in Sessions :
        (Done(s) /\ creating[s].free /\ ~creating[s].failed) => creating[s].ret = TRUE
    /\ \A u \in Users, n \in ChatNames :
        Len(SelectChat(chats, u, n)) = Cardinality(Created(u, n))

\* both sessions created the same chat and both returned true
C9_Witness ==
    /\ \A s \in Sessions : Done(s) /\ creating[s].ret = TRUE
    /\ \E u \in Users, n \in ChatNames :
        /\ Created(u, n) = Sessions
        /\ Len(SelectChat(chats, u, n)) = 2

\* C10: when the store fails during save_history, create_new_chat or delete_chat,
\* the call reports a result that differs from the result of a successful call.
C10_FailureIsReported ==
    last.failed =>
        /\ last.op = "save" => last.ret # "None"
        /\ last.op = "create" => last.ret # TRUE
        /\ last.op = "delete" => last.ret # "None"

(* ---------------- the read handlers over both tables ------------------- *)
\* load_history, get_available_chats and get_document_sources, called in any
\* order with save_history and add_documents filling the two tables.  The two
\* writers act on different tables and commute, so the documents are added first:
\* every pair of tables the handlers can build is still built.
NextRead ==
    \/ SaveHistory
    \/ last.op \in {"init", "add"} /\ AddDocuments
    \/ LoadHistory
    \/ GetAvailableChats
    \/ GetDocumentSources

SpecRead == Init /\ [][NextRead]_vars

(* ========================= claims: read handlers ======================== *)
\* the names get_document_sources can return for the documents of Batches
SourceNames == {basename(docs[d].source) : d \in 1..2, docs \in {b \in Batches : Len(b) >= 2}}
               \cup {basename(docs[1].source) : docs \in {b \in Batches : Len(b) >= 1}}

\* C11: load_history, get_available_chats and get_document_sources never raise to
\* the caller: each returns a list, the empty one when the chat / the user has no
\* data and also when the store call fails, and none of them modifies the store.
C11_ReadsDegradeToEmpty ==
    [][/\ last'.op \in {"load", "list", "sources"} =>
            chats' = chats /\ documents' = documents
       /\ last'.op = "load" =>
            /\ last'.ret \in Histories
            /\ (last'.failed \/ SelectChat(chats, last'.user, last'.name) = <<>>) =>
                    last'.ret = <<>>
       /\ last'.op = "list" =>
            /\ \A k \in 1..Len(last'.ret) : last'.ret[k] \in ChatNames
            /\ (last'.failed \/ SelectUser(chats, last'.user) = <<>>) => last'.ret = <<>>
       /\ last'.op = "sources" =>
            /\ last'.ret \subseteq SourceNames
            /\ (\/ last'.failed
                \/ \A i \in 1..Len(documents) : documents[i].username # last'.user) =>
                    last'.ret = {}]_vars

\* the store failed on a load of a chat that holds messages, and the load
\* returned the empty list
C11_Witness ==
    /\ last.op = "load" /\ last.failed /\ last.ret = <<>>
    /\ \E i \in 1..Len(chats) :
        /\ IsChat(chats[i], last.user, last.name)
        /\ chats[i].messages # <<>>

(* -------------------- the page script, one run a step ------------------- *)
\* Every widget event reruns the page script from the top: _render_sidebar, then
\* _render_chat_interface; st.rerun() ends the run and starts a fresh one without
\* an event.  A run is threaded through a context c: the chats table, the session
\* state, the save_history calls made so far, the store calls that raised, whether
\* st.rerun() was called, and whether an exception left the script.
MaxRuns == 6
MaxMessages == 4

Prompts == Contents
Answers == {"c2"}

\* f"New Chat {timestamp}", f"{original_name}_{counter}" for counter = 2, 3: the
\* names of the New Chat button for presses within one second
StampedNames == <<"New Chat 11-05_10-00-00", "New Chat 11-05_10-00-00_2",
                  "New Chat 11-05_10-00-00_3">>

\* the handler whose store calls (or model call) fail during a run
FailurePoints == {"none", "list", "load", "save", "create", "rename", "delete", "llm"}

InList(x, list) == \E i \in 1..Len(list) : list[i] = x

Context(tbl, ss) ==
    [tbl |-> tbl, ss |-> ss, saves |-> <<>>, raised |-> 0, stop |-> FALSE, crashed |-> FALSE]

\* the context after a handler call that returned r
Returned(c, r) == [c EXCEPT !.tbl = r.tbl, !.raised = @ + r.raised]

\* the record of a save_history call: the chat, what was stored for it before,
\* the history passed, and the chat that history was loaded for (prev_chat)
SaveRecord(c, name, row, r) ==
    [name |-> name, before |-> IF row = <<>> THEN <<>> ELSE row[1].messages,
     history |-> c.ss.messages, failed |-> r.failed, loaded |-> c.ss.prev_chat]

Saved(c, name, r) ==
    [Returned(c, r) EXCEPT
        !.saves = Append(@, SaveRecord(c, name, SelectChat(c.tbl, c.ss.username, name), r))]

\* conv_manager.save_history(name, st.session_state.messages)
UiSave(c, name, e) ==
    Saved(c, name,
          save_history(c.tbl, c.ss.username, name, c.ss.messages, e.now, e.hasTs,
                       e.fail = "save", e.fail = "save"))

\* while new_chat_name in available_chats: counter += 1; ...
new_chat_name(available) ==
    StampedNames[CHOOSE k \in 1..Len(StampedNames) :
                    /\ ~InList(StampedNames[k], available)
                    /\ \A j \in 1..(k - 1) : InList(StampedNames[j], available)]

\* if success: switch to the new chat and rerun; else: st.error, the run goes on
NewChatCreated(c, name, r) ==
    IF r.ret
    THEN [Returned(c, r) EXCEPT !.ss.current_chat = name, !.ss.messages = <<>>,
                                !.ss.prev_chat = "", !.stop = TRUE]
    ELSE Returned(c, r)

\* success = conv_manager.create_new_chat(new_chat_name)
NewChatCreate(c, name, e) ==
    NewChatCreated(c, name,
                   create_new_chat(c.tbl, c.ss.username, name, e.now, e.hasTs,
                                   e.fail = "create", e.fail = "create", e.fail = "create"))

\* if st.button("New Chat"): save the current chat, create the new one, switch to it
NewChat(c, available, e) ==
    NewChatCreate(IF c.ss.messages # <<>> THEN UiSave(c, c.ss.current_chat, e) ELSE c,
                  new_chat_name(available), e)

\* if selected_chat != st.session_state.current_chat: save, switch, rerun
Switch(c, selected_chat, e) ==
    IF selected_chat # c.ss.current_chat
    THEN [(IF c.ss.messages # <<>> /\ c.ss.current_chat # ""
           THEN UiSave(c, c.ss.current_chat, e) ELSE c)
          EXCEPT !.ss.current_chat = selected_chat, !.ss.prev_chat = "", !.stop = TRUE]
    ELSE c

\* if st.session_state.current_chat not in available_chats: ... = available_chats[0]
FirstIfMissing(c, available) ==
    IF InList(c.ss.current_chat, available) THEN c
    ELSE [c EXCEPT !.ss.current_chat = available[1]]

\* the value of st.selectbox(options=available_chats, index=idx, key=...): the
\* option the user picked; else, for a widget whose key and options are those of
\* the last run, either the value the widget holds under its key (e.keep) or the
\* option at index, depending on whether the installed Streamlit identifies a
\* keyed widget by its key alone or also by its index argument; else the option
\* at index, which is the current chat
Selected(c, available, ev, e) ==
    IF ev.type = "select" /\ InList(ev.arg, available) THEN ev.arg
    ELSE IF /\ e.keep
            /\ c.ss.chat_selector.options = available
         THEN c.ss.chat_selector.value
         ELSE c.ss.current_chat

\* the widget keeps the value it returned
Shown(c, available, selected_chat) ==
    [c EXCEPT !.ss.chat_selector = WidgetState(available, selected_chat)]

Selecting(c, available, ev, e) ==
    Switch(Shown(c, available, Selected(c, available, ev, e)),
           Selected(c, available, ev, e), e)

\* the chat selector: the current chat falls back to the first available one; a
\* selection other than the current chat saves the current chat and switches
Selector(c, available, ev, e) ==
    IF available # <<>>
    THEN Selecting(FirstIfMissing(c, available), available, ev, e)
    ELSE [c EXCEPT !.ss.current_chat = IF @ = "" THEN DEFAULT_CHAT_NAME ELSE @,
                   !.ss.chat_selector = NoWidget]

\* if st.button("Logout"): the session state is deleted
Logout(c, ev) ==
    IF ~c.stop /\ ev.type = "logout"
    THEN [c EXCEPT !.ss = SessionDefaults, !.stop = TRUE]
    ELSE c

SelectorStep(c, available, ev, e) == IF c.stop THEN c ELSE Selector(c, available, ev, e)

NewChatStep(c, available, ev, e) ==
    IF ev.type = "new_chat" THEN NewChat(c, available, e) ELSE c

\* the chat widgets of the sidebar, given what get_available_chats returned
ManageChats(c, lst, ev, e) ==
    Logout(SelectorStep(NewChatStep([c EXCEPT !.raised = @ + lst.raised], lst.ret, ev, e),
                        lst.ret, ev, e),
           ev)

\* _render_sidebar without the knowledge-base widgets (they leave the chats table
\* and the session state alone)
render_sidebar(c, ev, e) ==
    ManageChats(c, get_available_chats(c.tbl, c.ss.username, e.hasTs,
                                       e.fail = "list", e.fail = "list"),
                ev, e)

\* chain.invoke(...) of LLMHandler.get_conversational_rag_chain(retriever): the
\* generated answer, or the failure of the language-model collaborator, which is
\* surfaced to the caller
chain_invoke(answer, fail) ==
    IF fail THEN [answer |-> "", raised |-> TRUE]
    ELSE [answer |-> answer, raised |-> FALSE]

AppendMessage(c, cls, content) ==
    [c EXCEPT !.ss.messages = Append(@, [cls |-> cls, content |-> content])]

SaveCurrent(c, e) == UiSave(c, c.ss.current_chat, e)

\* mutant: a failure of the chain is answered with a placeholder
Answered_placeholder(c, response, e) ==
    SaveCurrent(AppendMessage([c EXCEPT !.raised = @ + IF response.raised THEN 1 ELSE 0],
                              "AIMessage", response.answer), e)

\* the exception of chain.invoke leaves the script; else the answer is appended
\* and the chat saved
Answered(c, response, e) ==
    IF response.raised
    THEN [c EXCEPT !.crashed = TRUE, !.raised = @ + 1]
    ELSE SaveCurrent(AppendMessage(c, "AIMessage", response.answer), e)

\* if prompt := st.chat_input(...): append the question, ask the chain, append the
\* answer, save the chat
Ask(c, prompt, answer, e) ==
    Answered(AppendMessage(c, "HumanMessage", prompt),
             chain_invoke(answer, e.fail = "llm"), e)

\* st.session_state.messages = conv_manager.load_history(current_chat)
Loading(c, ld) ==
    [c EXCEPT !.ss.messages = ld.ret, !.ss.prev_chat = c.ss.current_chat,
              !.raised = @ + ld.raised]

LoadCurrent(c, e) ==
    Loading(c, load_history(c.tbl, c.ss.username, c.ss.current_chat, e.fail = "load"))

\* if prev_chat != current_chat: save the messages under prev_chat, load current_chat
Reload(c, e) ==
    IF c.ss.prev_chat # c.ss.current_chat
    THEN LoadCurrent(IF c.ss.prev_chat # "" /\ c.ss.messages # <<>>
                     THEN UiSave(c, c.ss.prev_chat, e) ELSE c, e)
    ELSE c

\* conv_manager.rename_chat(current_chat, new_name); current_chat = new_name; rerun
Rename(c, new_name, e) ==
    [Returned(c, rename_chat(c.tbl, c.ss.username, c.ss.current_chat, new_name, e.now,
                             e.hasTs, e.fail = "rename", e.fail = "rename",
                             e.fail = "rename"))
     EXCEPT !.ss.current_chat = new_name, !.stop = TRUE]

\* conv_manager.delete_chat(current_chat); back to the default chat; rerun
Delete(c, e) ==
    [Returned(c, delete_chat(c.tbl, c.ss.username, c.ss.current_chat, e.fail = "delete"))
     EXCEPT !.ss.current_chat = DEFAULT_CHAT_NAME, !.ss.messages = <<>>,
            !.ss.prev_chat = "", !.stop = TRUE]

\* the rename box, the delete button and the chat input; shown: the chat the page
\* showed when the event was made (the rename box is keyed by the current chat, so
\* text typed for another chat is not seen by this run)
Interact(c, ev, answer, e, shown) ==
    IF /\ ev.type = "rename" /\ c.ss.current_chat = shown
       /\ ev.arg # c.ss.current_chat /\ ev.arg # ""
    THEN Rename(c, ev.arg, e)
    ELSE IF ev.type = "delete" THEN Delete(c, e)
    ELSE IF ev.type = "ask" THEN Ask(c, ev.arg, answer, e)
    ELSE c

\* _render_chat_interface
render_chat_interface(c, ev, answer, e, shown) ==
    Interact(Reload(c, e), ev, answer, e, shown)

ChatInterfaceStep(c, ev, answer, e, shown) ==
    IF c.stop THEN c ELSE render_chat_interface(c, ev, answer, e, shown)

\* RAGAgentUI.run() for a logged-in session
run(tbl, ss, ev, answer, e) ==
    ChatInterfaceStep(render_sidebar(Context(tbl, ss), ev, e), ev, answer, e,
                      ss.current_chat)

\* whether the selector returns the value held under its key when that differs
\* from the option at index: both outcomes when the held value is not the current
\* chat (else the held value is the option at index, and they coincide)
Keeping(ss) == IF ss.chat_selector.value = ss.current_chat THEN {FALSE} ELSE BOOLEAN

\* one run of the page script on event ev; fail: the handler that fails in it
PageRun(ev, answer, fail) ==
    /\ ui.ss.logged_in
    /\ clock < MaxRuns
    /\ ui.rerun => ev.type = "none"
    /\ clock' = clock + 1
    /\ \E c \in {run(chats, ui.ss, ev, answer,
                      [now |-> clock', hasTs |-> hasUpdatedAt, fail |-> fail,
                       keep |-> keep]) : keep \in Keeping(ui.ss)} :
           /\ Len(c.ss.messages) <= MaxMessages
           /\ (fail = "none") = (c.raised = 0)
           /\ failures + c.raised <= MaxFailures
           /\ failures' = failures + c.raised
           /\ chats' = c.tbl
           /\ ui' = [ss |-> c.ss, rerun |-> c.stop, event |-> ev, fail |-> fail,
                     saves |-> c.saves, crashed |-> c.crashed]
    /\ UNCHANGED <<hasUpdatedAt, last, documents, creating, upload>>

\* _render_auth_page: a successful sign-in
Login ==
    \E u \in Users :
        /\ ~ui.ss.logged_in
        /\ ui' = [ss |-> [ui.ss EXCEPT !.logged_in = TRUE, !.username = u],
                  rerun |-> TRUE, event |-> Event("login", u), fail |-> "none",
                  saves |-> <<>>, crashed |-> FALSE]
        /\ UNCHANGED <<chats, hasUpdatedAt, clock, failures, last, documents, creating, upload>>

Rerun == \E fail \in FailurePoints : PageRun(NoEvent, "", fail)
NewChatButton ==
    \E fail \in FailurePoints :
        /\ \E k \in 1..Len(StampedNames) : SelectChat(chats, ui.ss.username, StampedNames[k]) = <<>>
        /\ PageRun(Event("new_chat", ""), "", fail)
ChatSelector ==
    \E i \in 1..Len(chats), fail \in FailurePoints :
        /\ chats[i].username = ui.ss.username
        /\ chats[i].chat_name # ui.ss.current_chat
        /\ PageRun(Event("select", chats[i].chat_name), "", fail)
\* the text typed into the Chat Name box: a new name, or the name of a chat of
\* the user
TypedNames ==
    ChatNames \cup {chats[i].chat_name :
                        i \in {j \in 1..Len(chats) : chats[j].username = ui.ss.username}}

RenameInput ==
    \E new_name \in TypedNames, fail \in FailurePoints :
        /\ new_name # ui.ss.current_chat
        /\ PageRun(Event("rename", new_name), "", fail)
DeleteButton == \E fail \in FailurePoints : PageRun(Event("delete", ""), "", fail)
ChatInput ==
    \E prompt \in Prompts, answer \in Answers, fail \in FailurePoints :
        PageRun(Event("ask", prompt), answer, fail)
LogoutButton == \E fail \in FailurePoints : PageRun(Event("logout", ""), "", fail)

NextUI ==
    \/ Login
    \/ Rerun
    \/ NewChatButton
    \/ ChatSelector
    \/ RenameInput
    \/ DeleteButton
    \/ ChatInput
    \/ LogoutButton

SpecUI == Init /\ [][NextUI]_vars

(* ========================= claims: the page session ===================== *)
IsPrefix(a, b) == Len(a) <= Len(b) /\ SubSeq(b, 1, Len(a)) = a

\* C12: within one chat the message sequence is append-only: across any sequence
\* of page runs (ask, switch chat, new chat, rename), also those where a load
\* degraded to the empty list because the store failed, every save_history to a
\* chat stores a sequence that has the chat's previously stored sequence as a
\* prefix.
C12_AppendOnly ==
    [][\A i \in 1..Len(ui'.saves) :
          ~ui'.saves[i].failed =>
              IsPrefix(HistoryFromJson(ui'.saves[i].before), ui'.saves[i].history)]_vars

\* the same, for runs in which no store call ever failed
C12_AppendOnlyNoFailure ==
    [][failures' = 0 =>
        \A i \in 1..Len(ui'.saves) :
            IsPrefix(HistoryFromJson(ui'.saves[i].before), ui'.saves[i].history)]_vars

(* ------------------------- document processor -------------------------- *)
\* an uploaded file: its name (stem and extension), its content, and the number
\* of pages a pdf has (PyPDFLoader yields a document per page, the other loaders
\* one document)
MaxBatch == 2
Stems == {"a"}
Extensions == {".pdf", ".PDF", ".txt", ".docx", ".csv"}
UploadedFiles ==
    {[name |-> n, ext |-> x, content |-> c, pages |-> p] :
        n \in Stems, x \in {".pdf", ".PDF"}, c \in Contents, p \in 1..2}
    \cup {[name |-> n, ext |-> x, content |-> c, pages |-> 1] :
            n \in Stems, x \in Extensions \ {".pdf", ".PDF"}, c \in Contents}
UploadedFile(n, x, c, p) == [name |-> n, ext |-> x, content |-> c, pages |-> p]

\* what materializing and reading one file can do: nothing wrong, open/write of
\* the temporary file raises, loader.load() raises
IOOutcomes == {"ok", "write", "load"}

\* temp_filepath.suffix.lower()
lower(ext) == IF ext = ".PDF" THEN ".pdf" ELSE ext

\* Path(f"./temp_{file.name}")
temp_filepath(file) == <<"temp_", file.name, file.ext>>

\* loader.load() of PyPDFLoader / TextLoader / Docx2txtLoader on the temporary file
load(file) ==
    [p \in 1..(IF lower(file.ext) = ".pdf" THEN file.pages ELSE 1) |->
        [source |-> temp_filepath(file), content |-> file.content, page |-> p]]

\* mutant: an unsupported file ends the loop
RECURSIVE process_from_break(_, _, _, _)
process_from_break(files, io, i, docs) ==
    IF i > Len(files) THEN [ret |-> docs, failed |-> FALSE]
    ELSE IF io[i] = "write" THEN [ret |-> <<>>, failed |-> TRUE]
    ELSE IF lower(files[i].ext) \notin {".pdf", ".txt", ".docx"}
    THEN [ret |-> docs, failed |-> FALSE]
    ELSE IF io[i] = "load" THEN [ret |-> <<>>, failed |-> TRUE]
    ELSE process_from_break(files, io, i + 1, docs \o load(files[i]))

\* the loop of process_uploaded_files from file i on; an exception of open, write
\* or load leaves the function (failed), nothing is returned
RECURSIVE process_from(_, _, _, _)
process_from(files, io, i, docs) ==
    IF i > Len(files) THEN [ret |-> docs, failed |-> FALSE]
    ELSE IF io[i] = "write" THEN [ret |-> <<>>, failed |-> TRUE]
    ELSE IF lower(files[i].ext) \notin {".pdf", ".txt", ".docx"}
    THEN process_from(files, io, i + 1, docs)
    ELSE IF io[i] = "load" THEN [ret |-> <<>>, failed |-> TRUE]
    ELSE process_from(files, io, i + 1, docs \o load(files[i]))

\* DocumentProcessor.process_uploaded_files(uploaded_files)
process_uploaded_files(files, io) == process_from(files, io, 1, <<>>)

\* the function keeps nothing between calls, so a behaviour makes one call
ProcessUploadedFiles ==
    /\ last.op = "init"
    /\ clock' = clock + 1
    /\ \E n \in 0..MaxBatch :
        \E files \in [1..n -> UploadedFiles], io \in [1..n -> IOOutcomes] :
            last' = Call("process", "", "", [files |-> files, io |-> io],
                         process_uploaded_files(files, io), FALSE)
    /\ UNCHANGED <<chats, hasUpdatedAt, failures, documents, creating, ui, upload>>

NextProc == ProcessUploadedFiles

SpecProc == InitKB /\ [][NextProc]_vars

(* ======================= claims: document processor ===================== *)
Supported(file) == file.ext \in {".pdf", ".PDF", ".txt", ".docx"}

\* the documents of the supported files of a batch, in input order
RECURSIVE DocumentsOf(_)
DocumentsOf(files) ==
    IF files = <<>> THEN <<>>
    ELSE (IF Supported(Head(files)) THEN load(Head(files)) ELSE <<>>)
         \o DocumentsOf(Tail(files))

\* C13: for any batch of uploaded files (every file written and read without an
\* I/O error), process_uploaded_files returns documents for exactly the files
\* whose extension is pdf, txt or docx (in any letter case), in input order; a
\* file with another extension is skipped without raising and the remaining files
\* are still processed.
C13_SupportedFilesInOrder ==
    [][(/\ last'.op = "process"
        /\ \A i \in 1..Len(last'.arg.files) : last'.arg.io[i] = "ok") =>
            /\ ~last'.failed
            /\ last'.ret = DocumentsOf(last'.arg.files)
            /\ \A d \in 1..Len(last'.ret) :
                \E i \in 1..Len(last'.arg.files) :
                    /\ Supported(last'.arg.files[i])
                    /\ last'.ret[d].source = temp_filepath(last'.arg.files[i])
            /\ \A i \in 1..Len(last'.arg.files) :
                Supported(last'.arg.files[i]) =>
                    \E d \in 1..Len(last'.ret) :
                        /\ last'.ret[d].source = temp_filepath(last'.arg.files[i])
                        /\ last'.ret[d].content = last'.arg.files[i].content]_vars

\* a batch of one .csv and one .txt yielded exactly the .txt's document
C13_Witness ==
    /\ last.op = "process" /\ ~last.failed
    /\ Len(last.arg.files) = 2
    /\ last.arg.files[1].ext = ".csv" /\ last.arg.files[2].ext = ".txt"
    /\ last.ret = <<[source |-> temp_filepath(last.arg.files[2]),
                     content |-> last.arg.files[2].content, page |-> 1]>>

\* the files of a batch that are written and read without an I/O error
RECURSIVE OkFiles(_, _, _)
OkFiles(files, io, i) ==
    IF i > Len(files) THEN <<>>
    ELSE (IF io[i] = "ok" THEN <<files[i]>> ELSE <<>>) \o OkFiles(files, io, i + 1)

\* C14: if writing the temporary file or extracting text fails for one file of a
\* batch, process_uploaded_files skips that file and still returns the documents
\* of every other supported file of the batch; the failure does not abort the
\* batch.
C14_FailureSkipsOneFile ==
    [][last'.op = "process" =>
        /\ ~last'.failed
        /\ last'.ret = DocumentsOf(OkFiles(last'.arg.files, last'.arg.io, 1))]_vars

(* ==================== claims: knowledge base contents =================== *)
RECURSIVE NumChunks(_)
NumChunks(docs) == IF docs = <<>> THEN 0 ELSE Head(docs).size + NumChunks(Tail(docs))

\* C15: every row of the documents table carries the username of the user whose
\* manager added it: add_documents appends the chunks of its input, each tagged
\* with the acting user whatever username the input metadata held, and adds
\* nothing on empty input; no other call adds or rewrites a row.
C15_ChunksCarryOwner ==
    [][/\ (last'.op = "add" /\ ~last'.failed) =>
            /\ Len(documents') = Len(documents) + NumChunks(last'.arg)
            /\ SubSeq(documents', 1, Len(documents)) = documents
            /\ \A i \in (Len(documents) + 1)..Len(documents') :
                documents'[i].username = last'.user
            /\ last'.arg = <<>> => documents' = documents
       /\ (last'.op = "add" /\ last'.failed) => documents' = documents
       /\ last'.op # "add" =>
            \A i \in 1..Len(documents') :
                \E j \in 1..Len(documents) : documents[j] = documents'[i]]_vars

\* a user added a document whose metadata named another user, next to rows of
\* that other user
C15_Witness ==
    /\ last.op = "add" /\ ~last.failed
    /\ \E d \in 1..Len(last.arg) : last.arg[d].username \in OtherUsers(last.user)
    /\ \E i \in 1..Len(documents) : documents[i].username # last.user
    /\ documents[Len(documents)].username = last.user

\* the source filename holds f as a substring
Contains(src, f) ==
    /\ src # NoSource
    /\ \E i \in 1..(Len(src) - Len(f) + 1) : SubSeq(src, i, i + Len(f) - 1) = f

\* C16: delete_document(U, f) removes every chunk owned by U whose source filename
\* matches f (holds f as a substring), leaves unchanged every chunk owned by any
\* other user and every chunk of U whose source does not match, and is
\* idempotent: deleting a source with no chunks succeeds and changes nothing.
C16_DeleteRemovesMatchingOnly ==
    [][(last'.op = "delete_document" /\ ~last'.failed) =>
        /\ last'.ret = TRUE
        /\ documents' =
            SelectSeq(documents,
                      LAMBDA r : ~(r.username = last'.user /\ Contains(r.source, last'.name)))]_vars

\* the chunks stored for user u that have a source
Sourced(tbl, u) == {i \in 1..Len(tbl) : tbl[i].username = u /\ tbl[i].source # NoSource}

\* name is what follows the last "/" of path (all of path when it has none)
IsBasenameOf(name, path) ==
    /\ \A k \in 1..Len(name) : name[k] # "/"
    /\ \E k \in 0..Len(path) :
        /\ name = SubSeq(path, k + 1, Len(path))
        /\ k > 0 => path[k] = "/"

\* C17: after any sequence of add_documents and delete_document calls by any
\* users, get_document_sources(U) returns exactly the distinct basenames of the
\* sources of the chunks currently stored for U: every stored source is listed
\* under its name without directory components, nothing else is listed (so no
\* source whose chunks were all deleted), and a source added by the previous call
\* is listed.
C17_SourcesAreStoredBasenames ==
    [][(last'.op = "sources" /\ ~last'.failed) =>
        /\ \A i \in Sourced(documents, last'.user) :
            \E name \in last'.ret : IsBasenameOf(name, documents[i].source)
        /\ \A name \in last'.ret :
            \E i \in Sourced(documents, last'.user) :
                IsBasenameOf(name, documents[i].source)
        /\ (last.op = "add" /\ ~last.failed /\ last.user = last'.user) =>
            \A d \in 1..Len(last.arg) :
                last.arg[d].source # NoSource =>
                    \E name \in last'.ret : IsBasenameOf(name, last.arg[d].source)]_vars

\* a user's sources were listed while the user holds chunks whose sources differ
\* only in the directory, next to a chunk of another file
C17_Witness ==
    /\ last.op = "sources" /\ ~last.failed
    /\ \E i, j \in Sourced(documents, last.user) :
        /\ documents[i].source # documents[j].source
        /\ basename(documents[i].source) = basename(documents[j].source)
    /\ Cardinality(last.ret) < Cardinality({documents[i].source : i \in Sourced(documents, last.user)})

(* ========================= claims: chat listing ========================= *)
UpdatedAt(tbl, u, n) == SelectChat(tbl, u, n)[1].updated_at

\* C18: get_available_chats(U) returns exactly the names of U's chats, and when
\* update timestamps are available they are ordered most-recently-updated first,
\* where create, save and rename each set the chat's updated_at to the time of
\* the call (no store call having raised).
C18_ListedMostRecentFirst ==
    [][failures' = 0 =>
        /\ last'.op = "list" =>
            /\ Len(last'.ret) = NumChats(chats, last'.user)
            /\ \A i \in 1..Len(chats) :
                chats[i].username = last'.user =>
                    \E k \in 1..Len(last'.ret) : last'.ret[k] = chats[i].chat_name
            /\ \A k \in 1..Len(last'.ret) :
                SelectChat(chats, last'.user, last'.ret[k]) # <<>>
            /\ hasUpdatedAt =>
                \A k, l \in 1..Len(last'.ret) :
                    k < l => UpdatedAt(chats, last'.user, last'.ret[k])
                                > UpdatedAt(chats, last'.user, last'.ret[l])
            /\ ~hasUpdatedAt =>
                \A k \in 1..Len(last'.ret) :
                    last'.ret[k] = SelectUser(chats, last'.user)[k].chat_name
        /\ (hasUpdatedAt /\ last'.op = "create" /\ last'.ret = TRUE) =>
            UpdatedAt(chats', last'.user, last'.name) = clock'
        /\ (hasUpdatedAt /\ last'.op = "save") =>
            UpdatedAt(chats', last'.user, last'.name) = clock'
        /\ (hasUpdatedAt /\ last'.op = "rename" /\ last'.ret = TRUE /\ last'.changed) =>
            UpdatedAt(chats', last'.user, last'.arg) = clock']_vars

\* two chats were listed in the reverse of their store order, the chat written
\* last first
C18_Witness ==
    /\ last.op = "list" /\ failures = 0 /\ hasUpdatedAt
    /\ Len(last.ret) = 2
    /\ last.ret[1] = SelectUser(chats, last.user)[2].chat_name
    /\ last.ret[2] = SelectUser(chats, last.user)[1].chat_name

(* ====================== claims: asking and renaming ===================== *)
StoredChat(tbl, ss) == SelectChat(tbl, ss.username, ss.current_chat)

\* C19: when the language-model collaborator fails during an ask, the failure
\* propagates to the caller: the run ends with the exception, the session's
\* messages end with the question (no assistant message, no placeholder answer,
\* is appended), save_history is not called for the chat, and the stored chat is
\* unchanged by that ask.
C19_ModelFailurePropagates ==
    [][(ui'.event.type = "ask" /\ ui'.fail = "llm") =>
        /\ ui'.crashed
        /\ ui'.ss.messages # <<>>
        /\ ui'.ss.messages[Len(ui'.ss.messages)] =
                [cls |-> "HumanMessage", content |-> ui'.event.arg]
        /\ SubSeq(ui'.ss.messages, 1, Len(ui'.ss.messages) - 1)
                \in {ui.ss.messages, Loaded(chats, ui'.ss.username, ui'.ss.current_chat)}
        /\ \A i \in 1..Len(ui'.saves) : ui'.saves[i].name # ui'.ss.current_chat
        /\ StoredChat(chats', ui'.ss) = StoredChat(chats, ui'.ss)]_vars

\* the model failed on a question asked in a chat that holds stored messages
C19_Witness ==
    /\ ui.event.type = "ask" /\ ui.fail = "llm" /\ ui.crashed
    /\ StoredChat(chats, ui.ss) # <<>>
    /\ StoredChat(chats, ui.ss)[1].messages # <<>>
    /\ Len(ui.ss.messages) = Len(StoredChat(chats, ui.ss)[1].messages) + 1

\* the run before renamed the shown chat, which holds messages, to a free name:
\* the old name (still in prev_chat) has no row, the new name has the row
Renamed ==
    /\ ui.event.type = "rename" /\ ui.fail = "none" /\ ui.rerun
    /\ ui.ss.messages # <<>>
    /\ ui.ss.prev_chat # "" /\ ui.ss.prev_chat # ui.ss.current_chat
    /\ SelectChat(chats, ui.ss.username, ui.ss.prev_chat) = <<>>
    /\ Len(StoredChat(chats, ui.ss)) = 1
    /\ StoredChat(chats, ui.ss)[1].messages = HistoryToJson(ui.ss.messages)

\* C20: after the user renames the current chat X (with non-empty history) to a
\* free name Y and the page reruns, the store contains the conversation only
\* under Y: no chat row named X exists for the user, i.e. the save-before-load
\* step of the next run does not re-create X.
C20_RenameLeavesNoOldRow ==
    [][(Renamed /\ ui'.event.type = "none" /\ ui'.fail = "none") =>
        /\ SelectChat(chats', ui.ss.username, ui.ss.prev_chat) = <<>>
        /\ Len(StoredChat(chats', ui.ss)) = 1
        /\ StoredChat(chats', ui.ss)[1].messages = HistoryToJson(ui.ss.messages)]_vars

(* ------------- the page session of a user who has stored chats ---------- *)
\* the chats table as earlier sessions of u1 left it: two conversations
Reply == <<[cls |-> "HumanMessage", content |-> "c2"],
           [cls |-> "AIMessage", content |-> "c2"]>>

StoredChats ==
    <<ChatRow("u1", "X", HistoryToJson(Conversation), 0),
      ChatRow("u1", "Y", HistoryToJson(Reply), 0)>>

InitStored ==
    /\ chats = StoredChats
    /\ hasUpdatedAt \in BOOLEAN
    /\ clock = 0
    /\ failures = 0
    /\ last = [op |-> "init", user |-> "", name |-> "", arg |-> "", ret |-> "None",
               failed |-> FALSE, changed |-> FALSE]
    /\ documents = <<>>
    /\ creating = [s \in Sessions |->
                    [pc |-> "idle", user |-> "", name |-> "", ret |-> FALSE,
                     free |-> FALSE, failed |-> FALSE]]
    /\ ui = [ss |-> SessionDefaults, rerun |-> FALSE, event |-> NoEvent, fail |-> "none",
             saves |-> <<>>, crashed |-> FALSE]
    /\ upload = NoUpload

NextStored ==
    \/ Login
    \/ Rerun
    \/ NewChatButton
    \/ ChatSelector
    \/ RenameInput
    \/ ChatInput

SpecStored == InitStored /\ [][NextStored]_vars

(* ===================== claims: the in-memory history ==================== *)
\* C21: every save_history(name, messages) of the session passes the in-memory
\* history that was loaded from, or appended to, chat name: the chat the history
\* was loaded for (prev_chat) is the chat it is saved under.  In particular a
\* rename to a name that already exists does not make the session save the old
\* chat's messages under the existing chat.
C21_SavesOwnHistory ==
    [][\A i \in 1..Len(ui'.saves) : ui'.saves[i].name = ui'.saves[i].loaded]_vars

\* the stored messages of chat n of user u (<<>> when it has no row)
StoredMessages(tbl, u, n) ==
    IF SelectChat(tbl, u, n) = <<>> THEN <<>> ELSE SelectChat(tbl, u, n)[1].messages

\* the run left the chat whose non-empty history was in memory, by the selector or
\* by New Chat
Leaves ==
    /\ ui'.event.type \in {"select", "new_chat"}
    /\ ui.ss.messages # <<>> /\ ui.ss.prev_chat # ""
    /\ ui'.ss.current_chat # ui.ss.prev_chat

\* the run loaded the history of a chat
Loads == ui'.ss.prev_chat # "" /\ ui'.ss.prev_chat # ui.ss.prev_chat

\* the chats of the user whose history was not in memory during the run
Away ==
    {n \in {chats[i].chat_name :
                i \in {j \in 1..Len(chats) : chats[j].username = ui'.ss.username}} :
        n # ui.ss.prev_chat /\ n # ui'.ss.prev_chat}

\* C22: whenever the session leaves a chat A with non-empty in-memory messages, by
\* selecting another chat or by New Chat, A's messages are saved under A before
\* another history is loaded, and switching back to A later loads exactly those
\* messages: the leaving run stores them under A and loads nothing, no run
\* changes the stored messages of a chat that is not in memory, and a run that
\* loads a chat puts its stored messages in memory (no store call having raised).
C22_SavedBeforeSwitch ==
    [][(failures' = 0 /\ ui'.ss.logged_in /\ ui'.event.type # "login") =>
        /\ Leaves =>
              /\ StoredMessages(chats', ui.ss.username, ui.ss.prev_chat)
                     = HistoryToJson(ui.ss.messages)
              /\ ~Loads
        /\ \A n \in Away :
              StoredMessages(chats', ui'.ss.username, n)
                  = StoredMessages(chats, ui'.ss.username, n)
        /\ (Loads /\ ui'.event.type = "none") =>
              ui'.ss.messages
                  = HistoryFromJson(StoredMessages(chats', ui'.ss.username,
                                                   ui'.ss.current_chat))]_vars

(* ------ process_uploaded_files of concurrent sessions, one file call a step ----- *)
\* Streamlit runs the sessions as threads of one server process, so every call
\* resolves Path(f"./temp_{file.name}") in the same working directory.  A call
\* takes three steps per file: the with block that writes the temporary file,
\* loader.load(), os.remove(); for an unsupported file the write and the remove.
\* The with block is taken as one step (interleavings inside it only add
\* behaviours).

\* the content of the files a session uploads
OwnContent(s) == IF s = "s1" THEN "c1" ELSE "c2"

\* the uploads of session s for the list of files named as in files
Uploads(files, s) == [i \in 1..Len(files) |-> [files[i] EXCEPT !.content = OwnContent(s)]]

\* the files on disk at a path (none or one)
AtPath(disk, path) == {d \in disk : d.path = path}

\* with open(temp_filepath, "wb") as f: f.write(file.getbuffer())
Written(disk, file) ==
    (disk \ AtPath(disk, temp_filepath(file)))
        \cup {[path |-> temp_filepath(file), file |-> file]}

\* os.remove(temp_filepath)
Removed(disk, file) == disk \ AtPath(disk, temp_filepath(file))

\* the file the session is at
Current(r) == r.files[r.i]

\* both users press "Process Files" on files with the same names
Submit ==
    /\ \A s \in Sessions : upload.run[s].pc = "idle"
    /\ \E n \in 1..MaxBatch :
        \E files \in [1..n -> {f \in UploadedFiles : f.content = OwnContent("s1")}] :
            upload' = [upload EXCEPT !.run =
                          [s \in Sessions |->
                              [pc |-> "write", files |-> Uploads(files, s), i |-> 1,
                               docs |-> <<>>]]]
    /\ UNCHANGED <<chats, hasUpdatedAt, clock, failures, last, documents, creating, ui>>

\* lines 13-15, then the dispatch on the suffix
WriteTemp(s) ==
    /\ upload.run[s].pc = "write"
    /\ upload' = [upload EXCEPT
                    !.disk = Written(@, Current(upload.run[s])),
                    !.run[s].pc =
                        IF lower(Current(upload.run[s]).ext) \in {".pdf", ".txt", ".docx"}
                        THEN "load" ELSE "remove"]
    /\ UNCHANGED <<chats, hasUpdatedAt, clock, failures, last, documents, creating, ui>>

\* docs.extend(loader.load()): the loader reads whatever file is at the path, and
\* raises when there is none
LoaderLoad(s) ==
    /\ upload.run[s].pc = "load"
    /\ upload' =
          IF AtPath(upload.disk, temp_filepath(Current(upload.run[s]))) = {}
          THEN [upload EXCEPT !.run[s].pc = "failed"]
          ELSE [upload EXCEPT
                   !.run[s].docs =
                       @ \o load((CHOOSE d \in AtPath(upload.disk,
                                                      temp_filepath(Current(upload.run[s]))) :
                                      TRUE).file),
                   !.run[s].pc = "remove"]
    /\ UNCHANGED <<chats, hasUpdatedAt, clock, failures, last, documents, creating, ui>>

\* os.remove(temp_filepath): raises FileNotFoundError when the file is gone; else
\* the loop goes to the next file, or the call returns docs
RemoveTemp(s) ==
    /\ upload.run[s].pc = "remove"
    /\ upload' =
          IF AtPath(upload.disk, temp_filepath(Current(upload.run[s]))) = {}
          THEN [upload EXCEPT !.run[s].pc = "failed"]
          ELSE [upload EXCEPT
                   !.disk = Removed(@, Current(upload.run[s])),
                   !.run[s].i = @ + 1,
                   !.run[s].pc = IF upload.run[s].i < Len(upload.run[s].files)
                                 THEN "write" ELSE "done"]
    /\ UNCHANGED <<chats, hasUpdatedAt, clock, failures, last, documents, creating, ui>>

NextUpload ==
    \/ Submit
    \/ \E s \in Sessions : WriteTemp(s)
    \/ \E s \in Sessions : LoaderLoad(s)
    \/ \E s \in Sessions : RemoveTemp(s)

SpecUpload == Init /\ [][NextUpload]_vars

(* ======================= claims: concurrent uploads ===================== *)
\* what the call of session s returns when it runs alone
Alone(s) ==
    process_uploaded_files(upload.run[s].files,
                           [i \in 1..Len(upload.run[s].files) |-> "ok"]).ret

\* C23: when two sessions of different users run process_uploaded_files
\* concurrently on files with the same names, the calls do not interfere: no call
\* ends with an error, every document a call has loaded has the content of the
\* session's own file, and a call that returns returns what it returns alone.
C23_ConcurrentUploadsDoNotInterfere ==
    \A s \in Sessions :
        /\ upload.run[s].pc # "failed"
        /\ \A k \in 1..Len(upload.run[s].docs) :
              upload.run[s].docs[k].content = OwnContent(s)
        /\ upload.run[s].pc = "done" => upload.run[s].docs = Alone(s)

=============================================================================
